---- MODULE Spec2Model ----
(***************************************************************************)
(* carbon-multi-resize: load the ordered retention and aggregation rules,  *)
(* walk the *.wsp files below UPDATE_BASE, compare each file's header with *)
(* the policy the rules prescribe for its metric and run whisper-resize on *)
(* the files that differ.                                                  *)
(*                                                                         *)
(* Conventions.  Python None is "None" for strings, NoneFloat for floats,  *)
(* NoPattern / "" for an absent (falsy) option.  Strings that are searched *)
(* or rewritten (paths, metrics, patterns) are sequences of tokens.        *)
(* Floats are decimal numbers [w |-> whole part, f |-> fraction digits].   *)
(***************************************************************************)
EXTENDS Integers, Sequences, FiniteSets, TLC

VARIABLES
  pc,            \* position of the script: "start", "schemas_loaded", "walking", "done", "aborted"
  schemasConf,   \* sections of storage-schemas.conf, in file order
  aggConf,       \* sections of storage-aggregation.conf, in file order
  schemas,       \* module global schemas (line 292)
  agg_schemas,   \* module global agg_schemas (line 295)
  tree,          \* the files os.walk(UPDATE_BASE) yields, in its order, with their headers
  idx,           \* number of files of the tree the walk has consumed in this run
  run,           \* which run of the script this is (1 = first)
  log,           \* history: one record per *.wsp file processed
  resolved,      \* history: the last get_archive_config call and its result
  ls,            \* a ListSchema object and its backing file
  lsHist,        \* history of the ListSchema object's loads
  err            \* the exception that ended the script, "" if none

vars == <<pc, schemasConf, aggConf, schemas, agg_schemas, tree, idx, run, log,
          resolved, ls, lsHist, err>>

-----------------------------------------------------------------------------
(* Bounds *)

MaxSections == 2
MaxFiles == 2
MaxRuns == 2
MaxMtime == 2

-----------------------------------------------------------------------------
(* Values *)

Range(s) == {s[i] : i \in 1..Len(s)}

NoneFloat == [w |-> -1, f |-> <<>>]

NoPattern == [anchored |-> FALSE, lit |-> <<>>]

IsDistinctSeq(s) == \A i, j \in 1..Len(s) : i # j => s[i].name # s[j].name

RECURSIVE StripZeros(_)
StripZeros(d) ==
  IF d # <<>> /\ d[Len(d)] = 0 THEN StripZeros(SubSeq(d, 1, Len(d) - 1)) ELSE d

\* float(text): text is [junk, w, f]; ValueError for text that is no number
FloatRaises(text) == text.junk

Float(text) == [w |-> text.w, f |-> StripZeros(text.f)]

\* 0 <= x <= 1
InUnitInterval(x) == x.w = 0 \/ (x.w = 1 /\ x.f = <<>>)

RECURSIVE LeadingZeros(_)
LeadingZeros(d) ==
  IF d # <<>> /\ d[1] = 0 THEN 1 + LeadingZeros(Tail(d)) ELSE 0

\* add one unit in the last place of digit string d; <<>> on carry out of d
RECURSIVE IncDigits(_)
IncDigits(d) ==
  IF d = <<>> THEN <<>>
  ELSE IF d[Len(d)] < 9 THEN [d EXCEPT ![Len(d)] = @ + 1]
  ELSE LET rest == IncDigits(SubSeq(d, 1, Len(d) - 1))
       IN IF rest = <<>> THEN <<>> ELSE Append(rest, 0)

StrFloatDigits == 12

\* '{0}'.format(x) of a float x, read back as a number: Python 2 formats a
\* float with str(), which keeps 12 significant digits
FormatFloat(x) ==
  LET keep == LeadingZeros(x.f) + StrFloatDigits
  IN IF x.w # 0 \/ Len(x.f) <= keep THEN x
     ELSE LET t == SubSeq(x.f, 1, keep)
              up == x.f[keep + 1] >= 5
              r == IF up THEN IncDigits(t) ELSE t
          IN IF up /\ r = <<>> THEN [w |-> 1, f |-> <<>>]
             ELSE [w |-> 0, f |-> StripZeros(r)]

-----------------------------------------------------------------------------
(* Schema classes, lines 134-191 *)

\* re.compile(pattern) raises for an unbalanced parenthesis
Compiles(pattern) == "(" \notin Range(pattern.lit)

\* regex.search(metric): an unanchored search unless the pattern starts with ^
PatternSchema_test(pattern, metric) ==
  \E i \in 1..(Len(metric) - Len(pattern.lit) + 1) :
     /\ pattern.anchored => i = 1
     /\ SubSeq(metric, i, i + Len(pattern.lit) - 1) = pattern.lit

DefaultSchema(name, archives) ==
  [kind |-> "default", name |-> name, pattern |-> NoPattern, archives |-> archives]

PatternSchema(name, pattern, archives) ==
  [kind |-> "pattern", name |-> name, pattern |-> pattern, archives |-> archives]

\* a local variable that was never assigned
Unbound == [kind |-> "unbound", name |-> "", pattern |-> NoPattern]

matches(schema, metric) ==
  IF schema.kind = "default" THEN TRUE
  ELSE PatternSchema_test(schema.pattern, metric)

-----------------------------------------------------------------------------
(* Archive, lines 194-209 *)

UnitMultipliers(u) ==
  CASE u = "" -> 1
    [] u = "s" -> 1
    [] u = "m" -> 60
    [] u = "h" -> 3600
    [] u = "d" -> 86400

\* whisper.parseRetentionDef("<p><pu>:<n><nu>") wrapped in Archive(...).getTuple()
Archive_fromString(retentionDef) ==
  LET precision == retentionDef.p * UnitMultipliers(retentionDef.pu)
      points == IF retentionDef.nu = "" THEN retentionDef.n
                ELSE (retentionDef.n * UnitMultipliers(retentionDef.nu)) \div precision
  IN <<precision, points>>

defaultArchive == <<60, 60 * 24 * 7>>

defaultSchema == DefaultSchema("default", <<defaultArchive>>)

defaultAggregation ==
  DefaultSchema("default", [xFilesFactor |-> NoneFloat, aggregationMethod |-> "None"])

aggregationMethods == {"average", "sum", "last", "max", "min"}

RECURSIVE SortByPrecision(_)
SortByPrecision(l) ==
  IF l = <<>> THEN <<>>
  ELSE LET m == CHOOSE i \in 1..Len(l) :
                  /\ \A j \in 1..Len(l) : l[i][1] <= l[j][1]
                  /\ \A j \in 1..(i - 1) : l[j][1] # l[i][1]
       IN <<l[m]>> \o SortByPrecision(SubSeq(l, 1, m - 1) \o SubSeq(l, m + 1, Len(l)))

\* whisper.validateArchiveList(archiveList) does not raise InvalidConfiguration
validateArchiveList(archiveList) ==
  LET l == SortByPrecision(archiveList)
  IN /\ l # <<>>
     /\ \A i \in 1..(Len(l) - 1) :
          /\ l[i][1] < l[i + 1][1]
          /\ l[i + 1][1] % l[i][1] = 0
          /\ l[i + 1][1] * l[i + 1][2] > l[i][1] * l[i][2]
          /\ l[i][2] >= l[i + 1][1] \div l[i][1]

-----------------------------------------------------------------------------
(* loadStorageSchemas, lines 212-240 *)

Returned(list) == [raised |-> "", list |-> list]

Raised(what) == [raised |-> what, list |-> <<>>]

ArchivesOf(section) ==
  [i \in 1..Len(section.retentions) |-> Archive_fromString(section.retentions[i])]

\* one iteration of the for loop per section; mySchema is the loop's local
RECURSIVE loadStorageSchemasLoop(_, _, _, _)
loadStorageSchemasLoop(config, i, schemaList, mySchema) ==
  IF i > Len(config) THEN Returned(Append(schemaList, defaultSchema))
  ELSE LET section == config[i]
           archives == ArchivesOf(section)
           bound == IF section.matchAll # "" THEN DefaultSchema(section.name, archives)
                    ELSE IF section.pattern # NoPattern
                         THEN PatternSchema(section.name, section.pattern, archives)
                         ELSE mySchema
       IN IF section.matchAll = "" /\ section.pattern # NoPattern
             /\ ~Compiles(section.pattern)
          THEN Raised("re.error")
          ELSE IF validateArchiveList(archives)
               THEN IF bound.kind = "unbound" THEN Raised("NameError")
                    ELSE loadStorageSchemasLoop(config, i + 1, Append(schemaList, bound), bound)
               ELSE loadStorageSchemasLoop(config, i + 1, schemaList, bound)

\* loadStorageSchemas without the append of the built-in default
loadStorageSchemas_noDefault(config) ==
  LET r == loadStorageSchemasLoop(config, 1, <<>>, Unbound)
  IN IF r.raised # "" THEN r ELSE Returned(SubSeq(r.list, 1, Len(r.list) - 1))

loadStorageSchemas(config) == loadStorageSchemasLoop(config, 1, <<>>, Unbound)

-----------------------------------------------------------------------------
(* loadAggregationSchemas, lines 243-284 *)

\* AggregationValid without the range assertion on xFilesFactor
AggregationValid_noRange(section) ==
  /\ section.xfilesfactor.given => ~FloatRaises(section.xfilesfactor)
  /\ section.aggregationmethod # "None" =>
       section.aggregationmethod \in aggregationMethods

\* the try block of lines 263-271 completes without an exception
AggregationValid(section) ==
  /\ section.xfilesfactor.given =>
       /\ ~FloatRaises(section.xfilesfactor)
       /\ InUnitInterval(Float(section.xfilesfactor))
  /\ section.aggregationmethod # "None" =>
       section.aggregationmethod \in aggregationMethods

AggregationOf(section) ==
  [xFilesFactor |-> IF section.xfilesfactor.given THEN Float(section.xfilesfactor)
                    ELSE NoneFloat,
   aggregationMethod |-> section.aggregationmethod]

RECURSIVE loadAggregationSchemasLoop(_, _, _, _)
loadAggregationSchemasLoop(config, i, schemaList, mySchema) ==
  IF i > Len(config) THEN Returned(Append(schemaList, defaultAggregation))
  ELSE LET section == config[i]
           archives == AggregationOf(section)
           bound == IF section.matchAll # "" THEN DefaultSchema(section.name, archives)
                    ELSE IF section.pattern # NoPattern
                         THEN PatternSchema(section.name, section.pattern, archives)
                         ELSE mySchema
       IN IF ~AggregationValid(section)
          THEN loadAggregationSchemasLoop(config, i + 1, schemaList, mySchema)
          ELSE IF section.matchAll = "" /\ section.pattern # NoPattern
                  /\ ~Compiles(section.pattern)
               THEN Raised("re.error")
               ELSE IF bound.kind = "unbound" THEN Raised("NameError")
                    ELSE loadAggregationSchemasLoop(config, i + 1,
                                                    Append(schemaList, bound), bound)

loadAggregationSchemas(config) == loadAggregationSchemasLoop(config, 1, <<>>, Unbound)

-----------------------------------------------------------------------------
(* get_archive_config, lines 300-319 *)

\* the scan without its break: the last matching rule wins
RECURSIVE LastMatch(_, _, _)
LastMatch(list, metric, i) ==
  IF i > Len(list) THEN 0
  ELSE LET later == LastMatch(list, metric, i + 1)
       IN IF later # 0 THEN later
          ELSE IF matches(list[i], metric) THEN i ELSE 0

\* for schema in list: if schema.matches(metric): ... break
RECURSIVE FirstMatch(_, _, _)
FirstMatch(list, metric, i) ==
  IF i > Len(list) THEN 0
  ELSE IF matches(list[i], metric) THEN i
  ELSE FirstMatch(list, metric, i + 1)

get_archive_config(schemaList, aggList, metric) ==
  LET s == FirstMatch(schemaList, metric, 1)
      a == FirstMatch(aggList, metric, 1)
      archiveConfig == IF s = 0 THEN <<>> ELSE schemaList[s].archives
      agg == IF a = 0 THEN [xFilesFactor |-> NoneFloat, aggregationMethod |-> "None"]
             ELSE aggList[a].archives
  IN [raised |-> archiveConfig = <<>>,
      archiveConfig |-> archiveConfig,
      xFilesFactor |-> agg.xFilesFactor,
      aggregationMethod |-> agg.aggregationMethod]

-----------------------------------------------------------------------------
(* diff_file_conf, lines 321-339 *)

Min(a, b) == IF a < b THEN a ELSE b

\* diff_file_conf comparing the file's point count with the configured interval
diff_file_conf_wrongField(info, config) ==
  IF info.xFilesFactor # config.xFilesFactor
     \/ info.aggregationMethod # config.aggregationMethod
  THEN "True"
  ELSE IF \E i \in 1..Min(Len(info.archives), Len(config.archiveConfig)) :
             \/ info.archives[i][1] # config.archiveConfig[i][1]
             \/ info.archives[i][2] # config.archiveConfig[i][1]
       THEN "True"
       ELSE "None"

\* the result of diff_file_conf once whisper.info has returned info:
\* "True", or "None" when the function falls off its end
diff_file_conf(info, config) ==
  IF info.xFilesFactor # config.xFilesFactor
     \/ info.aggregationMethod # config.aggregationMethod
  THEN "True"
  ELSE IF \E i \in 1..Min(Len(info.archives), Len(config.archiveConfig)) :
             \/ info.archives[i][1] # config.archiveConfig[i][1]
             \/ info.archives[i][2] # config.archiveConfig[i][2]
       THEN "True"
       ELSE "None"

\* the test of line 352 negated
Truthy_negated(v) == v # "True"

\* truth value of a diff_file_conf result in `if diff_file_conf(...)`
Truthy(v) == v = "True"

-----------------------------------------------------------------------------
(* The walk, lines 341-368 *)

LOCAL_DATA_DIR == "$LOCAL_DATA_DIR"

\* wsp_regex.search(f)
IsWsp(filepath) == filepath # <<>> /\ filepath[Len(filepath)] = ".wsp"

\* dir_sep_regex.sub('.', wsp_regex.sub('', root_dir_regex.sub('', filepath)))
MetricOf(filepath) ==
  LET noRoot == IF Len(filepath) >= 2 /\ filepath[1] = LOCAL_DATA_DIR /\ filepath[2] = "/"
                THEN SubSeq(filepath, 3, Len(filepath)) ELSE filepath
      noWsp == IF IsWsp(noRoot) THEN SubSeq(noRoot, 1, Len(noRoot) - 1) ELSE noRoot
  IN [i \in 1..Len(noWsp) |-> IF noWsp[i] = "/" THEN "." ELSE noWsp[i]]

Arg(opt, path, archive, text, num) ==
  [opt |-> opt, path |-> path, archive |-> archive, text |-> text, num |-> num]

WHISPER_RESIZE == "whisper-resize"

\* command_args of lines 355-365
command_args(filepath, config) ==
  <<Arg(WHISPER_RESIZE, <<>>, <<>>, "", NoneFloat), Arg("file", filepath, <<>>, "", NoneFloat)>>
  \o [i \in 1..Len(config.archiveConfig) |->
        Arg("archive", <<>>, config.archiveConfig[i], "", NoneFloat)]
  \o <<Arg("--nobackup", <<>>, <<>>, "", NoneFloat)>>
  \o (IF config.aggregationMethod # "None" /\ config.aggregationMethod # ""
      THEN <<Arg("--aggregationMethod", <<>>, <<>>, config.aggregationMethod, NoneFloat)>>
      ELSE <<>>)
  \o (IF config.xFilesFactor # NoneFloat
      THEN <<Arg("--xFilesFactor", <<>>, <<>>, "", FormatFloat(config.xFilesFactor))>>
      ELSE <<>>)

\* the header whisper-resize leaves in the file when it exits with status 0
WhisperResize(info, args) ==
  LET arch == SelectSeq(args, LAMBDA a : a.opt = "archive")
      meth == SelectSeq(args, LAMBDA a : a.opt = "--aggregationMethod")
      xff == SelectSeq(args, LAMBDA a : a.opt = "--xFilesFactor")
  IN [archives |-> [i \in 1..Len(arch) |-> arch[i].archive],
      aggregationMethod |-> IF meth = <<>> THEN info.aggregationMethod ELSE meth[1].text,
      xFilesFactor |-> IF xff = <<>> THEN info.xFilesFactor ELSE xff[1].num]

\* subprocess.check_output(command_args) with exit status 0: the tree afterwards
check_output(files, args) ==
  [k \in 1..Len(files) |->
     IF args # <<>> /\ files[k].path = args[2].path
     THEN [files[k] EXCEPT !.info = WhisperResize(files[k].info, args)]
     ELSE files[k]]

\* the body of the inner for loop for one *.wsp file; infoOk: whisper.info
\* returns a header; exitOk: whisper-resize exits with status 0
ProcessWsp(file, infoOk, exitOk) ==
  LET metric == MetricOf(file.path)
      config == get_archive_config(schemas, agg_schemas, metric)
      drift == IF config.raised \/ ~infoOk THEN "raised"
               ELSE diff_file_conf(file.info, config)
      args == IF Truthy(drift) THEN command_args(file.path, config) ELSE <<>>
  IN [run |-> run, path |-> file.path, metric |-> metric,
      observed |-> file.info, prescribed |-> config,
      drift |-> drift, args |-> args,
      err |-> IF config.raised THEN "Exception"
              ELSE IF ~infoOk THEN "IOError"
              ELSE IF args # <<>> /\ ~exitOk THEN "CalledProcessError"
              ELSE ""]

-----------------------------------------------------------------------------
(* Inputs: configuration files, metrics, trees *)

Def(p, pu, n, nu) == [p |-> p, pu |-> pu, n |-> n, nu |-> nu]

Num(w, f) == [given |-> TRUE, junk |-> FALSE, w |-> w, f |-> f]

NotGiven == [given |-> FALSE, junk |-> FALSE, w |-> 0, f |-> <<>>]

Junk == [given |-> TRUE, junk |-> TRUE, w |-> 0, f |-> <<>>]

StatsPattern == [anchored |-> TRUE, lit |-> <<"stats", ".">>]

FooPattern == [anchored |-> FALSE, lit |-> <<"foo">>]

BrokenPattern == [anchored |-> FALSE, lit |-> <<"(", "foo">>]

StorageSection(name, matchAll, pattern, retentions) ==
  [name |-> name, matchAll |-> matchAll, pattern |-> pattern, retentions |-> retentions]

\* sections a storage-schemas.conf may hold
StorageStats == StorageSection("stats", "", StatsPattern, <<Def(10, "s", 1, "d")>>)
StorageAll ==
  StorageSection("everything", "true", NoPattern, <<Def(1, "m", 7, "d"), Def(5, "m", 30, "d")>>)
StorageDup == StorageSection("dup", "", FooPattern, <<Def(60, "", 10, ""), Def(60, "", 20, "")>>)
StorageBare == StorageSection("bare", "", NoPattern, <<Def(60, "", 10080, "")>>)
StorageBroken == StorageSection("broken", "", BrokenPattern, <<Def(60, "", 10080, "")>>)

StorageSections == {StorageStats, StorageAll, StorageDup, StorageBare, StorageBroken}

AggSection(name, matchAll, pattern, xff, method) ==
  [name |-> name, matchAll |-> matchAll, pattern |-> pattern,
   xfilesfactor |-> xff, aggregationmethod |-> method]

\* sections a storage-aggregation.conf may hold
AggStats == AggSection("stats", "", StatsPattern, Num(0, <<5, 0>>), "sum")
AggAll == AggSection("everything", "true", NoPattern, NotGiven, "max")
AggOver == AggSection("over", "", FooPattern, Num(1, <<5>>), "sum")
AggJunk == AggSection("junk", "true", NoPattern, Junk, "None")
AggBogus == AggSection("bogus", "true", NoPattern, NotGiven, "median")
AggBare == AggSection("bare", "", NoPattern, Num(0, <<>>), "average")
AggPrecise ==
  AggSection("precise", "true", NoPattern, Num(0, <<1, 2, 3, 4, 5, 6, 7, 8, 9, 0, 1, 2, 3>>), "sum")
AggBroken == AggSection("broken", "", BrokenPattern, NotGiven, "None")

AggSections == {AggStats, AggAll, AggOver, AggJunk, AggBogus, AggBare, AggBroken}

\* the files with at most n sections, no section name twice
RECURSIVE Confs(_, _)
Confs(sections, n) ==
  IF n = 0 THEN {<<>>}
  ELSE LET shorter == Confs(sections, n - 1)
       IN shorter \cup {Append(c, x) : c \in {d \in shorter : Len(d) = n - 1}, x \in sections}

DistinctConfs(sections, n) == {c \in Confs(sections, n) : IsDistinctSeq(c)}

Metrics == {<<"stats", ".", "foo">>, <<"other">>, <<"other", ".", "stats", ".", "foo">>}

NoCall == [called |-> FALSE, metric |-> <<>>,
           result |-> get_archive_config(<<>>, <<>>, <<>>)]

NoList == [constructed |-> FALSE, exists |-> FALSE, fileMtime |-> 0, fileMembers |-> {},
           mtime |-> 0, members |-> {}]

NoListHist == [reads |-> 0, op |-> "none", result |-> FALSE]

-----------------------------------------------------------------------------
(* The script: module-level statements of lines 291-295 and 341-368 *)

\* line 292: schemas = loadStorageSchemas()
LoadSchemas ==
  /\ pc = "start"
  /\ LET r == loadStorageSchemas(schemasConf)
     IN IF r.raised # ""
        THEN /\ pc' = "aborted"
             /\ err' = r.raised
             /\ UNCHANGED schemas
        ELSE /\ pc' = "schemas_loaded"
             /\ schemas' = r.list
             /\ UNCHANGED err
  /\ UNCHANGED <<schemasConf, aggConf, agg_schemas, tree, idx, run, log, resolved, ls, lsHist>>

\* line 295: agg_schemas = loadAggregationSchemas()
LoadAggregation ==
  /\ pc = "schemas_loaded"
  /\ LET r == loadAggregationSchemas(aggConf)
     IN IF r.raised # ""
        THEN /\ pc' = "aborted"
             /\ err' = r.raised
             /\ UNCHANGED agg_schemas
        ELSE /\ pc' = "walking"
             /\ agg_schemas' = r.list
             /\ UNCHANGED err
  /\ UNCHANGED <<schemasConf, aggConf, schemas, tree, idx, run, log, resolved, ls, lsHist>>

\* a call get_archive_config(metric) against the loaded lists
Resolve(metric) ==
  /\ pc = "walking"
  /\ resolved' = [called |-> TRUE, metric |-> metric,
                  result |-> get_archive_config(schemas, agg_schemas, metric)]
  /\ UNCHANGED <<pc, schemasConf, aggConf, schemas, agg_schemas, tree, idx, run, log,
                 ls, lsHist, err>>

\* lines 347-368 for the next file os.walk yields
ProcessFile(infoOk, exitOk) ==
  /\ pc = "walking"
  /\ idx < Len(tree)
  /\ LET file == tree[idx + 1]
         e == ProcessWsp(file, infoOk, exitOk)
     IN IF ~IsWsp(file.path)
        THEN /\ idx' = idx + 1
             /\ UNCHANGED <<pc, tree, log, err>>
        ELSE /\ log' = Append(log, e)
             /\ tree' = IF e.args # <<>> /\ e.err = "" THEN check_output(tree, e.args)
                        ELSE tree
             /\ IF e.err # ""
                THEN pc' = "aborted" /\ err' = e.err /\ UNCHANGED idx
                ELSE idx' = idx + 1 /\ UNCHANGED <<pc, err>>
  /\ UNCHANGED <<schemasConf, aggConf, schemas, agg_schemas, run, resolved, ls, lsHist>>

\* os.walk is exhausted: the script ends
WalkEnd ==
  /\ pc = "walking"
  /\ idx = Len(tree)
  /\ pc' = "done"
  /\ UNCHANGED <<schemasConf, aggConf, schemas, agg_schemas, tree, idx, run, log,
                 resolved, ls, lsHist, err>>

\* the script is run again on the same configuration and tree
Rerun ==
  /\ pc = "done"
  /\ run < MaxRuns
  /\ pc' = "start"
  /\ run' = run + 1
  /\ idx' = 0
  /\ schemas' = <<>>
  /\ agg_schemas' = <<>>
  /\ UNCHANGED <<schemasConf, aggConf, tree, log, resolved, ls, lsHist, err>>

-----------------------------------------------------------------------------
(* The reconciliation: configuration is loaded and the tree walked, twice *)

Header(archives, xFilesFactor, aggregationMethod) ==
  [archives |-> archives, xFilesFactor |-> xFilesFactor,
   aggregationMethod |-> aggregationMethod]

NoHeader == Header(<<>>, NoneFloat, "None")

\* headers whisper.info can return: every field of a whisper header is set
Headers ==
  {Header(a, x, m) :
     a \in {<<<<60, 10080>>>>, <<<<60, 10080>>, <<300, 8640>>>>, <<<<10, 8640>>>>},
     x \in {[w |-> 0, f |-> <<5>>]},
     m \in {"sum", "average"}}

WspPaths == {<<LOCAL_DATA_DIR, "/", "stats", "/", "foo", ".wsp">>,
             <<LOCAL_DATA_DIR, "/", "other", ".wsp">>}

Files ==
  {[path |-> p, info |-> h] : p \in WspPaths, h \in Headers}
  \cup {[path |-> <<LOCAL_DATA_DIR, "/", "notes", ".txt">>, info |-> NoHeader]}

RECURSIVE TreesUpTo(_)
TreesUpTo(n) ==
  IF n = 0 THEN {<<>>}
  ELSE LET shorter == TreesUpTo(n - 1)
       IN shorter \cup
          UNION {{Append(t, f) : f \in {g \in Files :
                                          \A i \in 1..(n - 1) : t[i].path # g.path}} :
                 t \in {d \in shorter : Len(d) = n - 1}}

\* the configurations the reconciliation is explored on: they load without error
WalkStorageConfs == DistinctConfs({StorageStats, StorageAll}, MaxSections)

WalkAggConfs == DistinctConfs({AggStats, AggAll, AggPrecise}, MaxSections)

Init ==
  /\ pc = "start"
  /\ schemasConf \in WalkStorageConfs
  /\ aggConf \in WalkAggConfs
  /\ schemas = <<>>
  /\ agg_schemas = <<>>
  /\ tree \in TreesUpTo(MaxFiles)
  /\ idx = 0
  /\ run = 1
  /\ log = <<>>
  /\ resolved = NoCall
  /\ ls = NoList
  /\ lsHist = NoListHist
  /\ err = ""

Next ==
  \/ LoadSchemas
  \/ LoadAggregation
  \/ \E infoOk, exitOk \in BOOLEAN : ProcessFile(infoOk, exitOk)
  \/ WalkEnd
  \/ Rerun

Spec == Init /\ [][Next]_vars

-----------------------------------------------------------------------------
(* The loaders and the resolver on arbitrary configuration files *)

InitLoad ==
  /\ pc = "start"
  /\ schemasConf \in DistinctConfs(StorageSections, MaxSections)
  /\ aggConf \in DistinctConfs(AggSections, MaxSections)
  /\ schemas = <<>>
  /\ agg_schemas = <<>>
  /\ tree = <<>>
  /\ idx = 0
  /\ run = 1
  /\ log = <<>>
  /\ resolved = NoCall
  /\ ls = NoList
  /\ lsHist = NoListHist
  /\ err = ""

NextLoad ==
  \/ LoadSchemas
  \/ LoadAggregation
  \/ \E metric \in Metrics : Resolve(metric)

SpecLoad == InitLoad /\ [][NextLoad]_vars

-----------------------------------------------------------------------------
(* ListSchema, lines 163-191, and its backing file *)

ListMetrics == {<<"stats", ".", "foo">>, <<"other">>}

\* ListSchema.__init__, lines 171-179
ListSchema_init(l) ==
  IF l.exists
  THEN [l EXCEPT !.constructed = TRUE, !.mtime = l.fileMtime, !.members = l.fileMembers]
  ELSE [l EXCEPT !.constructed = TRUE, !.mtime = 0, !.members = {}]

\* the staleness test with >= for >
ListSchema_stale_orEqual(l) == l.exists /\ l.fileMtime >= l.mtime

\* the condition under which test() loads the file again, lines 182-185
ListSchema_stale(l) == l.exists /\ l.fileMtime > l.mtime

\* the object after ListSchema.test, lines 182-189
ListSchema_test(l) ==
  IF ListSchema_stale(l)
  THEN [l EXCEPT !.mtime = l.fileMtime, !.members = l.fileMembers]
  ELSE l

LsConstruct ==
  /\ ~ls.constructed
  /\ ls' = ListSchema_init(ls)
  /\ lsHist' = [reads |-> IF ls.exists THEN 1 ELSE 0, op |-> "init", result |-> FALSE]
  /\ UNCHANGED <<pc, schemasConf, aggConf, schemas, agg_schemas, tree, idx, run, log,
                 resolved, err>>

LsTest(metric) ==
  /\ ls.constructed
  /\ lsHist.reads <= MaxMtime
  /\ ls' = ListSchema_test(ls)
  /\ lsHist' = [reads |-> IF ListSchema_stale(ls) THEN lsHist.reads + 1 ELSE lsHist.reads,
                op |-> "test",
                result |-> metric \in ls'.members]
  /\ UNCHANGED <<pc, schemasConf, aggConf, schemas, agg_schemas, tree, idx, run, log,
                 resolved, err>>

\* another process writes the list file
LsWrite(t, members) ==
  /\ ls' = [ls EXCEPT !.exists = TRUE, !.fileMtime = t, !.fileMembers = members]
  /\ lsHist' = [lsHist EXCEPT !.op = "write"]
  /\ UNCHANGED <<pc, schemasConf, aggConf, schemas, agg_schemas, tree, idx, run, log,
                 resolved, err>>

\* another process removes the list file
LsDelete ==
  /\ ls.exists
  /\ ls' = [ls EXCEPT !.exists = FALSE, !.fileMtime = 0, !.fileMembers = {}]
  /\ lsHist' = [lsHist EXCEPT !.op = "delete"]
  /\ UNCHANGED <<pc, schemasConf, aggConf, schemas, agg_schemas, tree, idx, run, log,
                 resolved, err>>

InitList ==
  /\ pc = "start"
  /\ schemasConf = <<>>
  /\ aggConf = <<>>
  /\ schemas = <<>>
  /\ agg_schemas = <<>>
  /\ tree = <<>>
  /\ idx = 0
  /\ run = 1
  /\ log = <<>>
  /\ resolved = NoCall
  /\ \/ ls = NoList
     \/ \E t \in 1..MaxMtime, members \in SUBSET ListMetrics :
          ls = [NoList EXCEPT !.exists = TRUE, !.fileMtime = t, !.fileMembers = members]
  /\ lsHist = NoListHist
  /\ err = ""

NextList ==
  \/ LsConstruct
  \/ \E metric \in ListMetrics : LsTest(metric)
  \/ \E t \in 1..MaxMtime, members \in SUBSET ListMetrics : LsWrite(t, members)
  \/ LsDelete

SpecList == InitList /\ [][NextList]_vars

-----------------------------------------------------------------------------
(* Properties *)

Last(q) == q[Len(q)]

Invoked(e) == e.args # <<>>

\* the entries of the log whose drift check returned a value
Checked == {i \in 1..Len(log) : log[i].drift # "raised"}

SamePolicy(info, config) ==
  /\ info.aggregationMethod = config.aggregationMethod
  /\ info.xFilesFactor = config.xFilesFactor
  /\ Len(info.archives) = Len(config.archiveConfig)
  /\ \A i \in 1..Len(info.archives) :
       /\ info.archives[i][1] = config.archiveConfig[i][1]
       /\ info.archives[i][2] = config.archiveConfig[i][2]

\* C1: when a first run over the tree completed with every rewrite succeeding
\* and nothing else changed, a second run issues no rewrite invocation.
C1_SecondPassIssuesNoRewrite ==
  \A i \in 1..Len(log) : log[i].run >= 2 => ~Invoked(log[i])

\* C2: the drift check reports drift whenever the file's policy and the
\* prescribed policy differ: in aggregation method, in xFilesFactor, in the
\* length of the archive lists or in some archive at the same index.
C2_DifferenceIsReported ==
  \A i \in Checked :
     ~SamePolicy(log[i].observed, log[i].prescribed) => log[i].drift = "True"

\* C3: the drift check reports no drift (a false result) whenever the file's
\* policy equals the prescribed policy field for field.
C3_EqualIsNoDrift ==
  \A i \in Checked :
     SamePolicy(log[i].observed, log[i].prescribed) => ~(log[i].drift = "True")

C3_Witness ==
  \E i \in Checked :
     /\ SamePolicy(log[i].observed, log[i].prescribed)
     /\ log[i].drift = "None"
     /\ Len(log[i].observed.archives) >= 1

\* C4: a failure of whisper.info or of the rewrite for one file does not stop
\* the walk: every remaining *.wsp file of the tree is still processed in the
\* same run.
C4_WalkContinuesAfterFailure ==
  err \in {"IOError", "CalledProcessError"} =>
     \A k \in 1..Len(tree) :
        IsWsp(tree[k].path) =>
           \E i \in 1..Len(log) : log[i].run = run /\ log[i].path = tree[k].path

\* the position of the earliest rule of list that matches metric
Earliest(list, metric) ==
  CHOOSE i \in 1..Len(list) :
     /\ matches(list[i], metric)
     /\ \A j \in 1..(i - 1) : ~matches(list[j], metric)

\* C5: get_archive_config returns the archives of the earliest matching rule
\* of the retention list and the (xFilesFactor, method) of the earliest
\* matching rule of the aggregation list, each list scanned on its own.
C5_FirstMatchWins ==
  resolved.called =>
     LET s == schemas[Earliest(schemas, resolved.metric)]
         a == agg_schemas[Earliest(agg_schemas, resolved.metric)]
     IN /\ resolved.result.archiveConfig = s.archives
        /\ resolved.result.xFilesFactor = a.archives.xFilesFactor
        /\ resolved.result.aggregationMethod = a.archives.aggregationMethod

\* two rules with different payloads match in each list, and the two lists
\* select rules of different sections
C5_Witness ==
  /\ resolved.called
  /\ \E i, j \in 1..Len(schemas) :
       /\ i < j
       /\ matches(schemas[i], resolved.metric)
       /\ matches(schemas[j], resolved.metric)
       /\ schemas[i].archives # schemas[j].archives
  /\ \E i, j \in 1..Len(agg_schemas) :
       /\ i < j
       /\ matches(agg_schemas[i], resolved.metric)
       /\ matches(agg_schemas[j], resolved.metric)
       /\ agg_schemas[i].archives # agg_schemas[j].archives
  /\ schemas[Earliest(schemas, resolved.metric)].name
       # agg_schemas[Earliest(agg_schemas, resolved.metric)].name

\* C6: get_archive_config never raises and returns a non-empty archive list
\* for every metric, the built-in default rule (match-all, 60 s x 10080
\* points) being the last rule of the retention list.
C6_ResolutionIsTotal ==
  /\ schemas # <<>> =>
       Last(schemas) = DefaultSchema("default", <<<<60, 10080>>>>)
  /\ resolved.called =>
       /\ ~resolved.result.raised
       /\ resolved.result.archiveConfig # <<>>

\* no configured rule matches the metric: the built-in default answers
C6_Witness ==
  /\ resolved.called
  /\ Len(schemas) >= 2
  /\ \A i \in 1..(Len(schemas) - 1) : ~matches(schemas[i], resolved.metric)
  /\ resolved.result.archiveConfig = <<<<60, 10080>>>>

\* C7: the rewrite is invoked for a file exactly when the drift check reported
\* drift for it; a file without reported drift is left as it was, no file
\* other than the one being processed is touched, and no file is processed
\* twice in a run.
C7_RewriteOnlyOnDrift ==
  [][ /\ Len(log') <= Len(log) + 1
      /\ Len(log') = Len(log) + 1 =>
           LET e == Last(log')
           IN /\ Invoked(e) <=> e.drift = "True"
              /\ e.path = tree[idx + 1].path
              /\ Invoked(e) => e.args[2].path = e.path
              /\ \A i \in 1..Len(log) : ~(log[i].run = e.run /\ log[i].path = e.path)
      /\ \A k \in 1..Len(tree) :
           tree'[k] # tree[k] =>
              /\ Len(log') = Len(log) + 1
              /\ k = idx + 1
              /\ Last(log').drift = "True"
    ]_vars

\* in one run a file with drift was rewritten and a file without was not
C7_Witness ==
  \E i, j \in 1..Len(log) :
     /\ log[i].run = log[j].run
     /\ log[i].drift = "True" /\ Invoked(log[i]) /\ log[i].err = ""
     /\ log[j].drift = "None" /\ ~Invoked(log[j])

\* C8: ListSchema.test loads the member set again exactly when the backing
\* file's modification time is greater than the one recorded at the last
\* load; two test calls with no modification in between never load again,
\* and the recorded modification time never decreases.
C8_CacheStability ==
  [][ /\ ls'.mtime >= ls.mtime
      /\ (ls.constructed /\ lsHist'.op = "test") =>
           /\ (lsHist'.reads = lsHist.reads + 1)
                <=> (ls.exists /\ ls.fileMtime > ls.mtime)
           /\ lsHist'.reads \in {lsHist.reads, lsHist.reads + 1}
           /\ lsHist'.reads = lsHist.reads => ls'.members = ls.members
           /\ lsHist'.reads # lsHist.reads => ls'.members = ls.fileMembers
           /\ lsHist.op = "test" => lsHist'.reads = lsHist.reads
    ]_vars

\* the file was loaded at construction and again by a test call after a write
C8_Witness ==
  /\ ls.constructed
  /\ lsHist.op = "test"
  /\ lsHist.reads >= 2
  /\ ls.mtime = ls.fileMtime

HasSelector(section) ==
  \/ section.matchAll # ""
  \/ section.pattern # NoPattern /\ Compiles(section.pattern)

RuleOf(section, payload) ==
  IF section.matchAll # ""
  THEN [kind |-> "default", name |-> section.name, pattern |-> NoPattern,
        archives |-> payload]
  ELSE [kind |-> "pattern", name |-> section.name, pattern |-> section.pattern,
        archives |-> payload]

StoragePasses(section) == validateArchiveList(ArchivesOf(section))

AggPasses(section) ==
  LET x == section.xfilesfactor
  IN /\ x.given => ~x.junk /\ (x.w = 0 \/ (x.w = 1 /\ StripZeros(x.f) = <<>>))
     /\ section.aggregationmethod \in aggregationMethods \cup {"None"}

AggPayload(section) ==
  [xFilesFactor |-> IF section.xfilesfactor.given
                    THEN [w |-> section.xfilesfactor.w,
                          f |-> StripZeros(section.xfilesfactor.f)]
                    ELSE NoneFloat,
   aggregationMethod |-> section.aggregationmethod]

ExpectedStorage(conf) ==
  LET kept == SelectSeq(conf, StoragePasses)
  IN [i \in 1..Len(kept) |-> RuleOf(kept[i], ArchivesOf(kept[i]))] \o <<defaultSchema>>

ExpectedAgg(conf) ==
  LET kept == SelectSeq(conf, AggPasses)
  IN [i \in 1..Len(kept) |-> RuleOf(kept[i], AggPayload(kept[i]))] \o <<defaultAggregation>>

StorageLoadOver == pc # "start"

AggLoadOver == pc \in {"walking", "done"} \/ (pc = "aborted" /\ schemas # <<>>)

WellFormed(section) ==
  section.matchAll # "" \/ section.pattern = NoPattern \/ Compiles(section.pattern)

Selected(section) == section.matchAll # "" \/ section.pattern # NoPattern

ExpectedStorageSkipping(conf) ==
  LET kept == SelectSeq(conf, LAMBDA x : Selected(x) /\ StoragePasses(x))
  IN [i \in 1..Len(kept) |-> RuleOf(kept[i], ArchivesOf(kept[i]))] \o <<defaultSchema>>

ExpectedAggSkipping(conf) ==
  LET kept == SelectSeq(conf, LAMBDA x : Selected(x) /\ AggPasses(x))
  IN [i \in 1..Len(kept) |-> RuleOf(kept[i], AggPayload(kept[i]))] \o <<defaultAggregation>>

\* C10: a section with neither match-all nor pattern is skipped: it adds no
\* rule, loading does not abort and the sections after it are still loaded,
\* in both loaders.
C10_SelectorlessSectionSkipped ==
  /\ (StorageLoadOver /\ \A i \in 1..Len(schemasConf) : WellFormed(schemasConf[i]))
       => schemas = ExpectedStorageSkipping(schemasConf)
  /\ (AggLoadOver /\ \A i \in 1..Len(aggConf) : WellFormed(aggConf[i]))
       => agg_schemas = ExpectedAggSkipping(aggConf)

====
